---- MODULE Spec2Model ----
(***************************************************************************)
(* Decision-game score API (backend/http-functions.js): the score          *)
(* comparator isScoreBetter, the two save-score handlers                   *)
(* (post_decisionGame_saveScore, post_decisionGame), the two leaderboard   *)
(* handlers (get_decisionGame_leaderboard, get_decisionGame) and the       *)
(* DecisionGameScores collection they use.  A handler call is one step     *)
(* and its repository calls succeed, except in the interleaved runs        *)
(* (SpecConc) and the runs with a failing repository (SpecFail).           *)
(*                                                                         *)
(* JavaScript values are modelled as records [t, n, s]: t is the typeof    *)
(* tag, n the numeric value (numbers), s the characters (strings).         *)
(* Numbers are finite integers; createdAt timestamps are left out (no      *)
(* handler reads them).                                                    *)
(***************************************************************************)
EXTENDS Integers, Sequences, FiniteSets, TLC

\* ------------------------------------------------------------------ bounds
\* Score fields of the comparator inputs range over 0..MaxNum.
MaxNum == 1
\* The collection holds at most MaxRecords items (inserts are cut off there).
MaxRecords == 2
\* Calls of a run that keeps the history of submitted candidates.
MaxCalls == 3

\* --------------------------------------------------------------- JS values
Num(k) == [t |-> "number", n |-> k, s |-> <<>>]
Str(cs) == [t |-> "string", n |-> 0, s |-> cs]
Undefined == [t |-> "undefined", n |-> 0, s |-> <<>>]

\* typeof v
TypeOf(v) == v.t

\* !v is false exactly for a truthy v: undefined, "" and 0 are falsy
Truthy(v) ==
  CASE v.t = "undefined" -> FALSE
    [] v.t = "string" -> v.s # <<>>
    [] v.t = "number" -> v.n # 0

SHORT == Str(<<"s", "h", "o", "r", "t">>)
LONG == Str(<<"l", "o", "n", "g">>)
INFINITE == Str(<<"i", "n", "f", "i", "n", "i", "t", "e">>)
MEDIUM == Str(<<"m", "e", "d", "i", "u", "m">>)

\* const ALLOWED_MODES = ['short', 'long', 'infinite']
ALLOWED_MODES == {SHORT, LONG, INFINITE}

\* --------------------------------------------------------------- comparator
\* Faulty variants of isScoreBetter, one plausible slip each, come first.

\* slip: the last tie-break of either branch uses <= instead of <
isScoreBetterTieWins(a, b) ==
  IF a.mode = INFINITE
  THEN IF a.correct # b.correct THEN a.correct.n > b.correct.n
       ELSE IF a.avgReaction # b.avgReaction THEN a.avgReaction.n < b.avgReaction.n
       ELSE a.totalTime.n <= b.totalTime.n
  ELSE LET aMistakes == a.questions.n - a.correct.n
           bMistakes == b.questions.n - b.correct.n
       IN IF aMistakes # bMistakes THEN aMistakes < bMistakes
          ELSE IF a.totalTime # b.totalTime THEN a.totalTime.n < b.totalTime.n
          ELSE a.avgReaction.n <= b.avgReaction.n

\* slip: the infinite branch breaks ties on total time before average time
isScoreBetterInfiniteSwapped(a, b) ==
  IF a.mode = INFINITE
  THEN IF a.correct # b.correct THEN a.correct.n > b.correct.n
       ELSE IF a.totalTime # b.totalTime THEN a.totalTime.n < b.totalTime.n
       ELSE a.avgReaction.n < b.avgReaction.n
  ELSE LET aMistakes == a.questions.n - a.correct.n
           bMistakes == b.questions.n - b.correct.n
       IN IF aMistakes # bMistakes THEN aMistakes < bMistakes
          ELSE IF a.totalTime # b.totalTime THEN a.totalTime.n < b.totalTime.n
          ELSE a.avgReaction.n < b.avgReaction.n

\* slip: the short/long branch ranks on correct instead of questions - correct
isScoreBetterNoMistakes(a, b) ==
  IF a.mode = INFINITE
  THEN IF a.correct # b.correct THEN a.correct.n > b.correct.n
       ELSE IF a.avgReaction # b.avgReaction THEN a.avgReaction.n < b.avgReaction.n
       ELSE a.totalTime.n < b.totalTime.n
  ELSE IF a.correct # b.correct THEN a.correct.n > b.correct.n
       ELSE IF a.totalTime # b.totalTime THEN a.totalTime.n < b.totalTime.n
       ELSE a.avgReaction.n < b.avgReaction.n

\* slip: the short/long branch stops at the mistakes count when it ties
isScoreBetterMistakesOnly(a, b) ==
  IF a.mode = INFINITE
  THEN IF a.correct # b.correct THEN a.correct.n > b.correct.n
       ELSE IF a.avgReaction # b.avgReaction THEN a.avgReaction.n < b.avgReaction.n
       ELSE a.totalTime.n < b.totalTime.n
  ELSE LET aMistakes == a.questions.n - a.correct.n
           bMistakes == b.questions.n - b.correct.n
       IN IF aMistakes # bMistakes THEN aMistakes < bMistakes
          ELSE FALSE

\* function isScoreBetter(a, b): is a strictly better than b, by a's mode
isScoreBetter(a, b) ==
  IF a.mode = INFINITE
  THEN IF a.correct # b.correct THEN a.correct.n > b.correct.n
       ELSE IF a.avgReaction # b.avgReaction THEN a.avgReaction.n < b.avgReaction.n
       ELSE a.totalTime.n < b.totalTime.n
  ELSE LET aMistakes == a.questions.n - a.correct.n
           bMistakes == b.questions.n - b.correct.n
       IN IF aMistakes # bMistakes THEN aMistakes < bMistakes
          ELSE IF a.totalTime # b.totalTime THEN a.totalTime.n < b.totalTime.n
          ELSE a.avgReaction.n < b.avgReaction.n

\* ------------------------------------------------------------------ strings
\* String.prototype.toUpperCase on the letters the model's strings use.
UpperChar(c) ==
  CASE c = "a" -> "A"
    [] c = "l" -> "L"
    [] c = "i" -> "I"
    [] OTHER -> c

toUpperCase(cs) == [k \in 1..Len(cs) |-> UpperChar(cs[k])]

\* cs.slice(0, k)
slice0(cs, k) == SubSeq(cs, 1, IF Len(cs) < k THEN Len(cs) ELSE k)

\* ------------------------------------------------------------------- inputs
ALI == Str(<<"A", "L", "I">>)
ali == Str(<<"a", "l", "i">>)

\* Score tuples <<correct, questions, totalTime, avgReaction>> the requests
\* carry.  In either mode the second is the best and the third the worst:
\* the second wins on the first key (fewer mistakes, more correct) though it
\* is slower, the first beats the third on average time alone.
ScorePool ==
  { <<8, 10, 5000, 500>>,
    <<9, 10, 6000, 600>>,
    <<8, 10, 5000, 600>> }

Body(initials, mode, correct, questions, totalTime, avgReaction) ==
  [ kind |-> "object", initials |-> initials, mode |-> mode,
    correct |-> correct, questions |-> questions,
    totalTime |-> totalTime, avgReaction |-> avgReaction ]

ScoreBody(initials, mode, sc) ==
  Body(initials, mode, Num(sc[1]), Num(sc[2]), Num(sc[3]), Num(sc[4]))

\* Bodies with every field of the documented type and an allowed mode.
WellFormedBodies ==
  { ScoreBody(i, m, sc) : i \in {ALI, ali}, m \in {SHORT, INFINITE}, sc \in ScorePool }

NINE == Str(<<"n", "i", "n", "e">>)

\* Bodies that break one constraint of the documented payload each.
BadModeBodies ==
  { Body(ALI, Undefined, Num(8), Num(10), Num(5000), Num(500)),
    Body(ALI, Str(<<>>), Num(8), Num(10), Num(5000), Num(500)),
    Body(ALI, MEDIUM, Num(8), Num(10), Num(5000), Num(500)) }

BadInitialsBodies ==
  { Body(Undefined, SHORT, Num(8), Num(10), Num(5000), Num(500)),
    Body(Str(<<>>), SHORT, Num(8), Num(10), Num(5000), Num(500)),
    Body(Num(5), SHORT, Num(8), Num(10), Num(5000), Num(500)) }

BadNumberBodies ==
  { Body(ALI, SHORT, NINE, Num(10), Num(5000), Num(500)),
    Body(ALI, SHORT, Num(8), Undefined, Num(5000), Num(500)),
    Body(ALI, SHORT, Num(8), Num(10), NINE, Num(500)),
    Body(ALI, SHORT, Num(8), Num(10), Num(5000), Undefined) }

\* A body JSON.parse rejects, and the JSON text "null".
UnparsedBody(kind) ==
  [ kind |-> kind, initials |-> Undefined, mode |-> Undefined,
    correct |-> Undefined, questions |-> Undefined,
    totalTime |-> Undefined, avgReaction |-> Undefined ]

Bodies ==
  WellFormedBodies \cup BadModeBodies \cup BadInitialsBodies \cup BadNumberBodies
    \cup {UnparsedBody("malformed"), UnparsedBody("null")}

Request(path, body) == [path |-> path, body |-> body]

Requests ==
  { Request("saveScore", b) : b \in Bodies }
    \cup { Request("leaderboard", ScoreBody(ALI, SHORT, <<8, 10, 5000, 500>>)) }

\* The payload constraints of the documented API: mode in the enumeration,
\* initials a non-empty string, the four score fields numbers.
ValidPayload(b) ==
  /\ b.kind = "object"
  /\ b.mode \in ALLOWED_MODES
  /\ TypeOf(b.initials) = "string" /\ b.initials.s # <<>>
  /\ TypeOf(b.correct) = "number" /\ TypeOf(b.questions) = "number"
  /\ TypeOf(b.totalTime) = "number" /\ TypeOf(b.avgReaction) = "number"

\* --------------------------------------------------------------- repository
\* An item of the DecisionGameScores collection; _id is its position in db.
Item(id, initials, mode, correct, questions, totalTime, avgReaction, mistakes) ==
  [ _id |-> id, initials |-> initials, mode |-> mode, correct |-> correct,
    questions |-> questions, totalTime |-> totalTime,
    avgReaction |-> avgReaction, mistakes |-> mistakes ]

\* No item: what a lookup that matched nothing leaves in `current`.
NoItem ==
  Item(0, Undefined, Undefined, Undefined, Undefined, Undefined, Undefined, Undefined)

\* slip: the lookup leaves out .eq('mode', mode)
queryInitialsMode_NoMode(d, initials, mode) ==
  { k \in 1..Len(d) : d[k].initials = initials }

\* wixData.query(COL).eq('initials', initials).eq('mode', mode).find(): the ids
queryInitialsMode(d, initials, mode) ==
  { k \in 1..Len(d) : d[k].initials = initials /\ d[k].mode = mode }

\* variant: the store keeps one item per (initials, mode) and drops an insert
\* for a pair it already holds
insert_Unique(d, item) ==
  IF \E k \in 1..Len(d) : d[k].initials = item.initials /\ d[k].mode = item.mode
  THEN d
  ELSE Append(d, [item EXCEPT !._id = Len(d) + 1])

\* wixData.insert(COL, item): the store assigns the _id
insert(d, item) == Append(d, [item EXCEPT !._id = Len(d) + 1])

\* slip: the item with that _id is removed and the new one is not stored
update_Remove(d, item) == SelectSeq(d, LAMBDA it : it._id # item._id)

\* wixData.update(COL, item): replaces the item with that _id
update(d, item) == [d EXCEPT ![item._id] = item]

\* ----------------------------------------------------------------- handlers
\* What one call of a handler leaves: the response status, the collection,
\* the repository writes it made (in order) and the item its lookup read.
Result(status, d, w, current) ==
  [status |-> status, db |-> d, writes |-> w, current |-> current]

\* export async function post_decisionGame_saveScore(request)
post_decisionGame_saveScore_run(d, req) ==
  LET b == req.body IN
  IF b.kind = "malformed"
  THEN Result("serverError", d, <<>>, NoItem)
  ELSE IF ~Truthy(b.mode) \/ b.mode \notin ALLOWED_MODES
  THEN Result("badRequest", d, <<>>, NoItem)
  ELSE IF ~Truthy(b.initials) \/ TypeOf(b.initials) # "string"
  THEN Result("badRequest", d, <<>>, NoItem)
  ELSE IF \/ TypeOf(b.correct) # "number" \/ TypeOf(b.questions) # "number"
          \/ TypeOf(b.totalTime) # "number" \/ TypeOf(b.avgReaction) # "number"
  THEN Result("badRequest", d, <<>>, NoItem)
  ELSE LET mistakes == Num(b.questions.n - b.correct.n)
           item == Item(0, Str(slice0(toUpperCase(b.initials.s), 3)), b.mode,
                        b.correct, b.questions, b.totalTime, b.avgReaction, mistakes)
       IN Result("ok", insert(d, item), <<"insert">>, NoItem)

\* The overwrite of current's score fields by the candidate's.
overwritten(current, b) ==
  [current EXCEPT !.correct = b.correct, !.questions = b.questions,
                  !.totalTime = b.totalTime, !.avgReaction = b.avgReaction]

\* slip: the update is decided by "current is not better", so a candidate
\* that ties the stored record is written over it
keepBest_NotWorse(d, b, scoreDoc, current) ==
  IF ~isScoreBetter(current, scoreDoc)
  THEN Result("ok", update(d, overwritten(current, b)), <<"update">>, current)
  ELSE Result("ok", d, <<>>, current)

\* slip: the comparison is the wrong way round, so the worse run is kept
keepBest_Reversed(d, b, scoreDoc, current) ==
  IF isScoreBetter(current, scoreDoc)
  THEN Result("ok", update(d, overwritten(current, b)), <<"update">>, current)
  ELSE Result("ok", d, <<>>, current)

\* slip: a better candidate is also inserted as a new item
keepBest_InsertToo(d, b, scoreDoc, current) ==
  IF isScoreBetter(scoreDoc, current)
  THEN Result("ok", insert(update(d, overwritten(current, b)), scoreDoc),
              <<"update", "insert">>, current)
  ELSE Result("ok", d, <<>>, current)

\* variant: the decision and the update use the item as it is stored at the
\* time of the write, not the copy the lookup returned
keepBest_Reread(d, b, scoreDoc, current) ==
  IF isScoreBetter(scoreDoc, d[current._id])
  THEN Result("ok", update(d, overwritten(d[current._id], b)), <<"update">>, current)
  ELSE Result("ok", d, <<>>, current)

\* post_decisionGame, the branch for an existing item: update it when the
\* candidate is better, else write nothing.
keepBest(d, b, scoreDoc, current) ==
  IF isScoreBetter(scoreDoc, current)
  THEN Result("ok", update(d, overwritten(current, b)), <<"update">>, current)
  ELSE Result("ok", d, <<>>, current)

\* export async function post_decisionGame(request); pick is the _id of
\* existing.items[0], the item the store returns first.
post_decisionGame_run(d, req, pick) ==
  LET b == req.body IN
  IF req.path # "saveScore"
  THEN Result("notFound", d, <<>>, NoItem)
  ELSE IF b.kind \in {"malformed", "null"}
  THEN Result("serverError", d, <<>>, NoItem)
  ELSE IF \/ ~Truthy(b.initials) \/ ~Truthy(b.mode)
          \/ TypeOf(b.correct) # "number" \/ TypeOf(b.questions) # "number"
          \/ TypeOf(b.totalTime) # "number" \/ TypeOf(b.avgReaction) # "number"
  THEN Result("badRequest", d, <<>>, NoItem)
  ELSE LET existing == queryInitialsMode(d, b.initials, b.mode)
           scoreDoc == Item(0, b.initials, b.mode, b.correct, b.questions,
                            b.totalTime, b.avgReaction, Undefined)
       IN IF existing = {}
          THEN Result("ok", insert(d, scoreDoc), <<"insert">>, NoItem)
          ELSE keepBest(d, b, scoreDoc, d[pick])

\* The _ids existing.items[0] can have: any match (the query states no sort),
\* 0 when the lookup is not reached or matches nothing.
Picks(d, req) ==
  LET m == queryInitialsMode(d, req.body.initials, req.body.mode)
  IN IF m = {} THEN {0} ELSE m

\* -------------------------------------------------------------------- state
VARIABLES
  db,         \* the DecisionGameScores collection: items in insertion order
  handler,    \* the handler of the last call ("none" before the first)
  resp,       \* the status of its response
  writes,     \* the repository writes it made, in order
  cur,        \* the item its lookup read (NoItem when it read none)
  submitted,  \* history: the score documents accepted so far (logged runs)
  calls,      \* history: the number of calls so far (logged runs)
  cmpA,       \* comparator runs: the first record
  cmpB,       \* comparator runs: the second record
  cmpOut,     \* comparator runs: the results of isScoreBetter on them
  reqMode,    \* leaderboard calls: the mode query parameter of the last one
  fetched,    \* leaderboard calls: the items its query returned
  board,      \* leaderboard calls: the results array of its response
  echo,       \* leaderboard calls: the mode field of its response body
  proc,       \* interleaved runs: the call each client has in flight
  repoCalls   \* failing runs: the repository calls of the last call, in order

vars ==
  <<db, handler, resp, writes, cur, submitted, calls, cmpA, cmpB, cmpOut,
    reqMode, fetched, board, echo, proc, repoCalls>>
apiVars == <<db, handler, resp, writes, cur>>
histVars == <<submitted, calls>>
cmpVars == <<cmpA, cmpB, cmpOut>>
getVars == <<reqMode, fetched, board, echo>>

\* Records the comparator is run on: every mode of the enumeration, every
\* score field over 0..MaxNum (so correct > questions occurs as well).
CmpRecords ==
  { Item(0, ALI, m, Num(c), Num(q), Num(t), Num(a), Undefined) :
      m \in ALLOWED_MODES, c \in 0..MaxNum, q \in 0..MaxNum,
      t \in 0..MaxNum, a \in 0..MaxNum }

NotCompared == [done |-> FALSE, ab |-> FALSE, ba |-> FALSE, aa |-> FALSE]

\* The clients whose calls can be in flight together.
Procs == {1, 2}

\* A client with no call in flight, and none made yet.
Idle == [pc |-> "idle", req |-> Request("none", UnparsedBody("null")),
         current |-> NoItem, writes |-> <<>>]

\* The collection is empty and no call was made.
ApiInit ==
  /\ db = <<>>
  /\ handler = "none"
  /\ resp = "none"
  /\ writes = <<>>
  /\ cur = NoItem
  /\ submitted = {}
  /\ calls = 0
  /\ reqMode = Undefined /\ fetched = <<>> /\ board = <<>> /\ echo = Undefined
  /\ proc = [p \in Procs |-> Idle]
  /\ repoCalls = <<>>

Init ==
  /\ ApiInit
  /\ cmpA = NoItem /\ cmpB = NoItem /\ cmpOut = NotCompared

\* One call of post_decisionGame_saveScore, start to response.
post_decisionGame_saveScore(req) ==
  LET r == post_decisionGame_saveScore_run(db, req) IN
    /\ Len(r.db) <= MaxRecords
    /\ db' = r.db
    /\ handler' = "post_decisionGame_saveScore"
    /\ resp' = r.status
    /\ writes' = r.writes
    /\ cur' = r.current
    /\ reqMode' = Undefined /\ fetched' = <<>> /\ board' = <<>> /\ echo' = Undefined
    /\ UNCHANGED <<histVars, cmpVars, proc, repoCalls>>

\* One call of post_decisionGame, start to response, no other call in between.
post_decisionGame_call(req) ==
  \E pick \in Picks(db, req) :
    LET r == post_decisionGame_run(db, req, pick) IN
      /\ Len(r.db) <= MaxRecords
      /\ db' = r.db
      /\ handler' = "post_decisionGame"
      /\ resp' = r.status
      /\ writes' = r.writes
      /\ cur' = r.current

post_decisionGame(req) ==
  /\ post_decisionGame_call(req)
  /\ reqMode' = Undefined /\ fetched' = <<>> /\ board' = <<>> /\ echo' = Undefined
  /\ UNCHANGED <<histVars, cmpVars, proc, repoCalls>>

\* The score document post_decisionGame builds from a body.
ScoreDoc(b) ==
  Item(0, b.initials, b.mode, b.correct, b.questions, b.totalTime,
       b.avgReaction, Undefined)

\* post_decisionGame with the history kept: the score document of every call
\* that got past validation.
post_decisionGame_logged(req) ==
  /\ calls < MaxCalls
  /\ post_decisionGame_call(req)
  /\ calls' = calls + 1
  /\ submitted' = IF resp' = "ok" THEN submitted \cup {ScoreDoc(req.body)}
                  ELSE submitted
  /\ reqMode' = Undefined /\ fetched' = <<>> /\ board' = <<>> /\ echo' = Undefined
  /\ UNCHANGED <<cmpVars, proc, repoCalls>>

\* isScoreBetter applied to the pair, both ways round and to a with itself.
CompareScores ==
  /\ ~cmpOut.done
  /\ cmpOut' = [ done |-> TRUE,
                 ab |-> isScoreBetter(cmpA, cmpB),
                 ba |-> isScoreBetter(cmpB, cmpA),
                 aa |-> isScoreBetter(cmpA, cmpA) ]
  /\ UNCHANGED <<cmpA, cmpB, apiVars, histVars, getVars, proc, repoCalls>>

\* Both save-score endpoints, called one at a time.
Next ==
  \E req \in Requests :
    \/ post_decisionGame_saveScore(req)
    \/ post_decisionGame(req)

Spec == Init /\ [][Next]_vars

\* post_decisionGame alone (the endpoint that keeps the best run only).
NextUpsert == \E req \in Requests : post_decisionGame(req)

SpecUpsert == Init /\ [][NextUpsert]_vars

\* post_decisionGame alone, with the history of accepted score documents.
NextLogged == \E req \in Requests : post_decisionGame_logged(req)

SpecLogged == Init /\ [][NextLogged]_vars

\* The comparator on every pair of records.
InitCmp ==
  /\ ApiInit
  /\ cmpA \in CmpRecords /\ cmpB \in CmpRecords /\ cmpOut = NotCompared

NextCmp == CompareScores

SpecCmp == InitCmp /\ [][NextCmp]_vars

\* ------------------------------------------------------- comparator claims
\* x precedes y lexicographically: the first position that differs decides.
LexLess(x, y) ==
  \E k \in 1..Len(x) :
    /\ \A j \in 1..(k - 1) : x[j] = y[j]
    /\ x[k] < y[k]

\* (correct descending, average reaction time ascending, total time ascending)
InfiniteKey(r) == <<0 - r.correct.n, r.avgReaction.n, r.totalTime.n>>

\* (mistakes ascending, total time ascending, average reaction time ascending)
ShortLongKey(r) == <<r.questions.n - r.correct.n, r.totalTime.n, r.avgReaction.n>>

RankKey(r) == IF r.mode = INFINITE THEN InfiniteKey(r) ELSE ShortLongKey(r)

Compared == cmpOut.done
SameMode == cmpA.mode = cmpB.mode

\* C1: for two records of mode infinite, isScoreBetter(a, b) is true exactly
\* when a precedes b lexicographically on (correct descending, average
\* reaction time ascending, total time ascending), and when the three fields
\* are equal it is false both ways round.
C1_InfiniteLexicographic ==
  (Compared /\ cmpA.mode = INFINITE /\ cmpB.mode = INFINITE) =>
    /\ cmpOut.ab <=> LexLess(InfiniteKey(cmpA), InfiniteKey(cmpB))
    /\ InfiniteKey(cmpA) = InfiniteKey(cmpB) => (~cmpOut.ab /\ ~cmpOut.ba)

\* Two infinite records that differ in total time alone were compared, and the
\* third key decided for a.
C1_Witness ==
  /\ Compared /\ cmpA.mode = INFINITE /\ cmpB.mode = INFINITE
  /\ cmpA.correct = cmpB.correct /\ cmpA.avgReaction = cmpB.avgReaction
  /\ cmpA.totalTime.n < cmpB.totalTime.n
  /\ cmpOut.ab /\ ~cmpOut.ba

\* C2: for two records both of mode short or both of mode long,
\* isScoreBetter(a, b) is true exactly when a precedes b lexicographically on
\* (mistakes ascending, total time ascending, average reaction time
\* ascending), with mistakes = questions - correct on each side.
C2_ShortLongLexicographic ==
  (Compared /\ SameMode /\ cmpA.mode \in {SHORT, LONG}) =>
    (cmpOut.ab <=> LexLess(ShortLongKey(cmpA), ShortLongKey(cmpB)))

\* Two long records with different correct counts and the same number of
\* mistakes and total time were compared, and the average time decided for a.
C2_Witness ==
  /\ Compared /\ cmpA.mode = LONG /\ cmpB.mode = LONG
  /\ cmpA.correct # cmpB.correct
  /\ cmpA.questions.n - cmpA.correct.n = cmpB.questions.n - cmpB.correct.n
  /\ cmpA.totalTime = cmpB.totalTime
  /\ cmpA.avgReaction.n < cmpB.avgReaction.n
  /\ cmpOut.ab /\ ~cmpOut.ba

\* C3: over records of one mode isScoreBetter is a strict order: irreflexive,
\* asymmetric and transitive.
C3_StrictOrder ==
  (Compared /\ SameMode) =>
    /\ ~cmpOut.aa
    /\ cmpOut.ab => ~cmpOut.ba
    /\ \A c \in CmpRecords :
         (c.mode = cmpA.mode /\ cmpOut.ab /\ isScoreBetter(cmpB, c))
           => isScoreBetter(cmpA, c)

\* a is better than b, b is better than some c of the same mode.
C3_Witness ==
  /\ Compared /\ SameMode /\ cmpOut.ab
  /\ \E c \in CmpRecords : c.mode = cmpA.mode /\ isScoreBetter(cmpB, c)

\* C4: for two records of one mode exactly one of isScoreBetter(a, b) and
\* isScoreBetter(b, a) is true, unless the three ranking keys of the mode are
\* equal on a and b, and then both are false.
C4_TotalUpToTies ==
  (Compared /\ SameMode) =>
    IF RankKey(cmpA) = RankKey(cmpB)
    THEN ~cmpOut.ab /\ ~cmpOut.ba
    ELSE cmpOut.ab # cmpOut.ba

\* Two different short records with the same mistakes count were compared and
\* b came out better.
C4_Witness ==
  /\ Compared /\ cmpA.mode = SHORT /\ cmpB.mode = SHORT
  /\ cmpA.questions.n - cmpA.correct.n = cmpB.questions.n - cmpB.correct.n
  /\ RankKey(cmpA) # RankKey(cmpB)
  /\ cmpOut.ba /\ ~cmpOut.ab

\* ------------------------------------------------------- save-score claims
SameKey(x, y) == x.initials = y.initials /\ x.mode = y.mode

SameScore(x, y) ==
  /\ x.correct = y.correct /\ x.questions = y.questions
  /\ x.totalTime = y.totalTime /\ x.avgReaction = y.avgReaction

HasScore(x, sc) ==
  /\ x.correct = Num(sc[1]) /\ x.questions = Num(sc[2])
  /\ x.totalTime = Num(sc[3]) /\ x.avgReaction = Num(sc[4])

\* C5: after any sequence of save-score calls made one at a time from an empty
\* collection, the collection holds at most one item for each (initials, mode).
C5_OneRecordPerKey ==
  \A j, k \in 1..Len(db) : SameKey(db[j], db[k]) => j = k

\* C6: after any sequence of post_decisionGame calls made one at a time from
\* an empty collection, no score document accepted so far for an item's
\* (initials, mode) is better than the item, and the item's score fields are
\* those of one of the accepted score documents for that pair.
C6_StoredIsBest ==
  \A k \in 1..Len(db) :
    /\ \A c \in submitted : SameKey(c, db[k]) => ~isScoreBetter(c, db[k])
    /\ \E c \in submitted : SameKey(c, db[k]) /\ SameScore(c, db[k])

\* The last call replaced the stored item, and a second accepted document for
\* the pair is worse than what is stored now.
C6_Witness ==
  /\ handler = "post_decisionGame" /\ writes = <<"update">>
  /\ \E c \in submitted :
       /\ SameKey(c, cur) /\ SameScore(c, cur)
       /\ isScoreBetter(db[cur._id], c)

\* C7: when post_decisionGame finds an item for the submitted (initials,
\* mode), it overwrites the item's score fields with the candidate's if and
\* only if isScoreBetter(candidate, current); otherwise it writes nothing.
C7_ReplaceIffBetter ==
  [][ \A req \in Requests : \A pick \in Picks(db, req) :
        (pick # 0 /\ post_decisionGame(req) /\ resp' = "ok" /\ cur' = db[pick]) =>
          IF isScoreBetter(ScoreDoc(req.body), db[pick])
          THEN /\ writes' = <<"update">>
               /\ SameScore(db'[pick], req.body)
               /\ SameKey(db'[pick], db[pick])
          ELSE /\ writes' = <<>>
               /\ db' = db ]_vars

\* Short mode: the stored run had 2 mistakes; a candidate with 1 mistake and
\* larger total and average times has replaced it.
C7_Witness ==
  /\ handler = "post_decisionGame" /\ writes = <<"update">>
  /\ cur.mode = SHORT
  /\ HasScore(cur, <<8, 10, 5000, 500>>)
  /\ HasScore(db[cur._id], <<9, 10, 6000, 600>>)

\* Infinite mode: a candidate with the same correct count and a lower average
\* time has replaced the stored run.
C7_InfiniteExample ==
  /\ handler = "post_decisionGame" /\ writes = <<"update">>
  /\ cur.mode = INFINITE
  /\ HasScore(cur, <<8, 10, 5000, 600>>)
  /\ HasScore(db[cur._id], <<8, 10, 5000, 500>>)

\* The initials a handler stores an accepted body under.
StoredInitials(h, b) ==
  IF h = "post_decisionGame_saveScore"
  THEN Str(slice0(toUpperCase(b.initials.s), 3))
  ELSE b.initials

\* The items stored for the pair a handler files the body under.
StoredFor(h, b) ==
  { k \in 1..Len(db) :
      db[k].initials = StoredInitials(h, b) /\ db[k].mode = b.mode }

\* C8: a save-score call whose candidate is equal to or worse than the item
\* stored for its (initials, mode) leaves the whole collection unchanged.
C8_WorseOrEqualIsNoOp ==
  [][ \A req \in Requests :
        ( /\ ValidPayload(req.body)
          /\ \/ post_decisionGame_saveScore(req)
             \/ post_decisionGame(req)
          /\ StoredFor(handler', req.body) # {}
          /\ \A k \in StoredFor(handler', req.body) :
               ~isScoreBetter(ScoreDoc(req.body), db[k]) )
        => db' = db ]_vars

\* C9: a save-score call makes at most one repository write: nothing, one
\* insert (one item appended) or one update (one item changed).
C9_AtMostOneWrite ==
  [][ /\ Len(writes') <= 1
      /\ writes' = <<>> => db' = db
      /\ writes' = <<"insert">> =>
           (Len(db') = Len(db) + 1 /\ SubSeq(db', 1, Len(db)) = db)
      /\ writes' = <<"update">> =>
           /\ Len(db') = Len(db)
           /\ Cardinality({k \in 1..Len(db) : db'[k] # db[k]}) <= 1 ]_vars

\* A call of post_decisionGame has updated an item: one write, one item changed.
C9_Witness ==
  /\ handler = "post_decisionGame" /\ writes = <<"update">>
  /\ cur # NoItem /\ db[cur._id] # cur

\* C10: a save-score call whose payload breaks a constraint of the API (mode
\* missing or outside short/long/infinite, initials missing or not a
\* non-empty string, a score field that is no number) is answered with a
\* client error and writes nothing.
C10_InvalidPayloadRejected ==
  [][ \A req \in Requests :
        ( /\ req.body.kind = "object"
          /\ ~ValidPayload(req.body)
          /\ req.path = "saveScore"
          /\ \/ post_decisionGame_saveScore(req)
             \/ post_decisionGame(req) )
        => (resp' = "badRequest" /\ writes' = <<>> /\ db' = db) ]_vars

\* ------------------------------------------------------ normalized initials
\* initials.toUpperCase().slice(0, 3) of a string value
Normalized(v) == Str(slice0(toUpperCase(v.s), 3))

\* C11: save-score looks up and stores under the normalized initials
\* (uppercased, first 3 characters), so submissions whose raw initials differ
\* only in letter case or after the third character share one item: every
\* stored string initials is normalized, and no two items of one mode have
\* the same normalized initials.
C11_NormalizedKey ==
  /\ \A k \in 1..Len(db) :
       TypeOf(db[k].initials) = "string" => db[k].initials = Normalized(db[k].initials)
  /\ \A j, k \in 1..Len(db) :
       ( /\ TypeOf(db[j].initials) = "string" /\ TypeOf(db[k].initials) = "string"
         /\ db[j].mode = db[k].mode
         /\ Normalized(db[j].initials) = Normalized(db[k].initials) ) => j = k

\* -------------------------------------------------------------- leaderboard
\* .limit(1000) of the leaderboard query
QUERY_LIMIT == 1000
\* items.slice(0, 100)
TOP == 100

Min(x, y) == IF x < y THEN x ELSE y

\* String.prototype.toLowerCase on the letters the model's strings use.
LowerChar(c) ==
  CASE c = "S" -> "s"
    [] c = "H" -> "h"
    [] c = "O" -> "o"
    [] c = "R" -> "r"
    [] c = "T" -> "t"
    [] OTHER -> c

toLowerCase(cs) == [k \in 1..Len(cs) |-> LowerChar(cs[k])]

\* .eq('mode', mode): the items of that mode, in the order of the store
eqMode(d, mode) == SelectSeq(d, LAMBDA it : it.mode = mode)

\* slip: the query states no limit
limit_None(items, skip) == items

\* .limit(1000).find(): at most QUERY_LIMIT of the matching items.  The query
\* states no sort, so which ones is the store's choice: a run of consecutive
\* matches that leaves out the first `skip`.
limit(items, skip) ==
  LET n == Min(QUERY_LIMIT, Len(items))
      s == Min(skip, Len(items) - n)
  IN SubSeq(items, s + 1, s + n)

\* The runs the store can choose from: skip ranges over 0..MaxSkip(d).
MaxSkip(d) == IF Len(d) > QUERY_LIMIT THEN Len(d) - QUERY_LIMIT ELSE 0

\* The sort callbacks of get_decisionGame_leaderboard: the infinite one, and
\* the short/long one with mistakes = a.mistakes ?? (a.questions - a.correct).
leaderboardCompare(mode, a, b) ==
  IF mode = INFINITE
  THEN IF a.correct # b.correct THEN b.correct.n - a.correct.n
       ELSE IF a.avgReaction # b.avgReaction THEN a.avgReaction.n - b.avgReaction.n
       ELSE a.totalTime.n - b.totalTime.n
  ELSE LET mistakesA == IF a.mistakes = Undefined
                        THEN a.questions.n - a.correct.n ELSE a.mistakes.n
           mistakesB == IF b.mistakes = Undefined
                        THEN b.questions.n - b.correct.n ELSE b.mistakes.n
       IN IF mistakesA # mistakesB THEN mistakesA - mistakesB
          ELSE IF a.totalTime # b.totalTime THEN a.totalTime.n - b.totalTime.n
          ELSE a.avgReaction.n - b.avgReaction.n

\* The sort callback of get_decisionGame.
scoreCompare(a, b) ==
  IF isScoreBetter(a, b) THEN 0 - 1
  ELSE IF isScoreBetter(b, a) THEN 1
  ELSE 0

\* The callback a handler passes to sort: get_decisionGame_leaderboard picks
\* one of its two by the requested mode, get_decisionGame has one.
compareBy(callback, a, b) ==
  IF callback.handler = "get_decisionGame_leaderboard"
  THEN leaderboardCompare(callback.mode, a, b)
  ELSE scoreCompare(a, b)

\* Array.prototype.sort(callback), a stable sort: an item goes behind the items
\* that compare before it and behind the equal items ahead of it in the array.
sorted(items, callback) ==
  LET n == Len(items)
      at == <<>> \o [k \in 1..n |->
              1 + Cardinality({ j \in 1..n :
                    LET c == compareBy(callback, items[j], items[k])
                    IN c < 0 \/ (c = 0 /\ j < k) })]
      from == <<>> \o [p \in 1..n |-> CHOOSE k \in 1..n : at[k] = p]
  IN [p \in 1..n |-> items[from[p]]]

\* An entry of the results array; a field the handler does not emit is
\* Undefined.
Entry(rank, initials, mode, correct, questions, totalTime, avgReaction, mistakes) ==
  [ rank |-> rank, initials |-> initials, mode |-> mode, correct |-> correct,
    questions |-> questions, totalTime |-> totalTime,
    avgReaction |-> avgReaction, mistakes |-> mistakes ]

\* What one leaderboard call leaves: the response status, the items the query
\* returned, the results array and the mode field of the response body.
GetResult(status, items, results, mode) ==
  [status |-> status, fetched |-> items, results |-> results, echo |-> mode]

\* export async function get_decisionGame_leaderboard(request)
get_decisionGame_leaderboard_run(d, q, skip) ==
  LET mode == q.mode IN
  IF ~Truthy(mode) \/ mode \notin ALLOWED_MODES
  THEN GetResult("badRequest", <<>>, <<>>, Undefined)
  ELSE LET items == limit(eqMode(d, mode), skip)
           ranked == sorted(items, [handler |-> "get_decisionGame_leaderboard", mode |-> mode])
           top100 == [k \in 1..Min(TOP, Len(ranked)) |->
                       Entry(k, ranked[k].initials, ranked[k].mode, ranked[k].correct,
                             ranked[k].questions, ranked[k].totalTime,
                             ranked[k].avgReaction, ranked[k].mistakes)]
       IN GetResult("ok", items, top100, mode)

\* export async function get_decisionGame(request)
get_decisionGame_run(d, q, skip) ==
  IF q.path # "leaderboard"
  THEN GetResult("notFound", <<>>, <<>>, Undefined)
  ELSE LET queryMode == Str(toLowerCase((IF Truthy(q.mode) THEN q.mode ELSE SHORT).s))
           mode == IF queryMode \in {SHORT, LONG, INFINITE} THEN queryMode ELSE SHORT
           items == limit(eqMode(d, mode), skip)
           scores == [k \in 1..Len(items) |->
                       [items[k] EXCEPT !._id = 0, !.mistakes = Undefined]]
           ranked == sorted(scores, [handler |-> "get_decisionGame", mode |-> mode])
           top == [k \in 1..Min(TOP, Len(ranked)) |->
                    Entry(k, ranked[k].initials, Undefined, ranked[k].correct,
                          ranked[k].questions, ranked[k].totalTime,
                          ranked[k].avgReaction, Undefined)]
       IN GetResult("ok", items, top, Undefined)

\* The mode query parameters of the leaderboard requests: none, allowed ones,
\* one outside the enumeration and one in capitals.
QueryModes == {Undefined, SHORT, INFINITE, MEDIUM, Str(<<"S", "H", "O", "R", "T">>)}

GetRequests ==
  { [path |-> "leaderboard", mode |-> m] : m \in QueryModes }
    \cup { [path |-> "saveScore", mode |-> SHORT] }

\* One leaderboard call, start to response; the collection is not written.
leaderboard_call(name, r, q) ==
  /\ handler' = name
  /\ resp' = r.status
  /\ reqMode' = q.mode
  /\ fetched' = r.fetched
  /\ board' = r.results
  /\ echo' = r.echo
  /\ writes' = <<>>
  /\ cur' = NoItem
  /\ UNCHANGED <<db, histVars, cmpVars, proc, repoCalls>>

get_decisionGame_leaderboard(q) ==
  \E skip \in 0..MaxSkip(db) :
    leaderboard_call("get_decisionGame_leaderboard",
                     get_decisionGame_leaderboard_run(db, q, skip), q)

get_decisionGame(q) ==
  \E skip \in 0..MaxSkip(db) :
    leaderboard_call("get_decisionGame", get_decisionGame_run(db, q, skip), q)

\* Save-score requests of one player in two modes.
BoardRequests ==
  { Request("saveScore", ScoreBody(ALI, m, sc)) : m \in {SHORT, INFINITE}, sc \in ScorePool }

\* Both save-score endpoints and both leaderboard endpoints, one call at a time.
NextBoard ==
  \/ \E req \in BoardRequests :
       \/ post_decisionGame_saveScore(req)
       \/ post_decisionGame(req)
  \/ \E q \in GetRequests :
       \/ get_decisionGame_leaderboard(q)
       \/ get_decisionGame(q)

SpecBoard == Init /\ [][NextBoard]_vars

GetHandlers == {"get_decisionGame_leaderboard", "get_decisionGame"}

\* A results entry as a score record of mode m.
EntryScore(e, m) ==
  Item(0, e.initials, m, e.correct, e.questions, e.totalTime, e.avgReaction, e.mistakes)

\* C12: a leaderboard call for a valid mode with N stored records of that mode
\* (N within the query limit) returns min(100, N) entries ranked 1, 2, ... in
\* order, and no entry is strictly better (isScoreBetter of the mode) than an
\* entry ahead of it.
C12_RankedAndSorted ==
  ( /\ handler \in GetHandlers /\ resp = "ok" /\ reqMode \in ALLOWED_MODES
    /\ Len(eqMode(db, reqMode)) <= QUERY_LIMIT ) =>
      /\ Len(board) = Min(TOP, Len(eqMode(db, reqMode)))
      /\ \A k \in 1..Len(board) : board[k].rank = k
      /\ \A i, j \in 1..Len(board) :
           i < j => ~isScoreBetter(EntryScore(board[j], reqMode), EntryScore(board[i], reqMode))

\* A 4xx response.
ClientError(status) == status \in {"badRequest", "notFound"}

\* C13: a leaderboard call whose mode parameter is missing or not one of
\* short, long, infinite gets a client error and no leaderboard rows.
C13_UnknownModeRejected ==
  (handler \in GetHandlers /\ reqMode \notin ALLOWED_MODES) =>
    (ClientError(resp) /\ board = <<>>)

\* C17: a leaderboard call for a valid mode m returns only records of mode m,
\* and its response carries m next to the ranked results.
C17_ModeFilteredAndEchoed ==
  (handler \in GetHandlers /\ resp = "ok" /\ reqMode \in ALLOWED_MODES) =>
    /\ \A k \in 1..Len(board) :
         \E j \in 1..Len(db) :
           /\ db[j].mode = reqMode
           /\ EntryScore(board[k], reqMode) = [db[j] EXCEPT !._id = 0, !.mistakes = board[k].mistakes]
    /\ echo = reqMode

\* C18: a stored record that carries a mistakes field has it equal to its
\* questions - correct, after inserts and after updates.
C18_MistakesDerived ==
  \A k \in 1..Len(db) :
    db[k].mistakes # Undefined =>
      db[k].mistakes = Num(db[k].questions.n - db[k].correct.n)

\* The sort callback a leaderboard handler ranks its items with.
sortCompare(h, a, b) == compareBy([handler |-> h, mode |-> a.mode], a, b)

\* C19: for modes short and long the sort callback of the leaderboard puts a
\* before b exactly when isScoreBetter(a, b), for every pair of fetched
\* records, a persisted mistakes value that disagrees with questions - correct
\* included.
C19_ComparatorIsScoreBetter ==
  (handler \in GetHandlers /\ resp = "ok") =>
    \A i, j \in 1..Len(fetched) :
      fetched[i].mode \in {SHORT, LONG} =>
        ( sortCompare(handler, fetched[i], fetched[j]) < 0
            <=> isScoreBetter(fetched[i], fetched[j]) )

\* -------------------------------------------------------- interleaved calls
\* post_decisionGame awaits the repository twice: the lookup
\* (await ...find()) and the write (await wixData.insert / update).  Calls of
\* different clients interleave at these two points.

\* Save-score requests of the interleaved runs.
ConcRequests == BoardRequests

\* Client p's call up to the return of its lookup: validation, then the query;
\* current is the copy of existing.items[0] the call holds from here on.
post_decisionGame_find(p, req) ==
  /\ proc[p].pc = "idle"
  /\ calls < MaxCalls
  /\ calls' = calls + 1
  /\ \E pick \in Picks(db, req) :
       LET r == post_decisionGame_run(db, req, pick) IN
         IF r.status # "ok"
         THEN /\ proc' = [proc EXCEPT ![p] = [Idle EXCEPT !.req = req]]
              /\ handler' = "post_decisionGame"
              /\ resp' = r.status
              /\ writes' = <<>>
              /\ cur' = NoItem
         ELSE /\ proc' = [proc EXCEPT ![p] =
                   [pc |-> "found", req |-> req,
                    current |-> IF pick = 0 THEN NoItem ELSE db[pick],
                    writes |-> <<>>]]
              /\ UNCHANGED <<handler, resp, writes, cur>>
  /\ UNCHANGED <<db, submitted, cmpVars, getVars, repoCalls>>

\* The rest of client p's call: insert when its lookup matched nothing, else
\* compare the candidate with its copy of the item and update or not; the
\* write reaches the collection as it is now.
post_decisionGame_write(p) ==
  /\ proc[p].pc = "found"
  /\ LET b == proc[p].req.body
         r == IF proc[p].current = NoItem
              THEN Result("ok", insert(db, ScoreDoc(b)), <<"insert">>, NoItem)
              ELSE keepBest(db, b, ScoreDoc(b), proc[p].current)
     IN /\ Len(r.db) <= MaxRecords
        /\ db' = r.db
        /\ proc' = [proc EXCEPT ![p].pc = "idle", ![p].writes = r.writes]
        /\ handler' = "post_decisionGame"
        /\ resp' = r.status
        /\ writes' = r.writes
        /\ cur' = r.current
        /\ submitted' = submitted \cup {ScoreDoc(b)}
  /\ UNCHANGED <<calls, cmpVars, getVars, repoCalls>>

\* Calls of post_decisionGame by two clients, interleaved at their awaits.
NextConc ==
  \E p \in Procs :
    \/ \E req \in ConcRequests : post_decisionGame_find(p, req)
    \/ post_decisionGame_write(p)

SpecConc == Init /\ [][NextConc]_vars

\* Client p finishes its call in this step.
Finishes(p) == proc[p].pc = "found" /\ proc'[p].pc = "idle"

\* C14: two concurrent post_decisionGame calls for one (initials, mode) can
\* both read the same current record and both decide to update; the later
\* write wins.  A call that found its candidate better than the record it read
\* writes the candidate over that record whatever the record holds by then.
C14_LaterWriteWins ==
  [][ \A p \in Procs :
        ( /\ Finishes(p)
          /\ proc[p].current # NoItem
          /\ isScoreBetter(ScoreDoc(proc[p].req.body), proc[p].current) ) =>
            db'[proc[p].current._id] = overwritten(proc[p].current, proc[p].req.body)
    ]_vars

\* Both clients read the same record, both updated it, and the record stored
\* in the end is strictly worse than a candidate that was accepted.
C14_Witness ==
  /\ \A p \in Procs : proc[p].pc = "idle" /\ proc[p].writes = <<"update">>
  /\ proc[1].current = proc[2].current
  /\ proc[1].current # NoItem
  /\ \E s \in submitted :
       /\ SameKey(s, db[proc[1].current._id])
       /\ isScoreBetter(s, db[proc[1].current._id])

\* ------------------------------------------------- failing repository calls
\* A repository call of a handler and whether its promise resolved.
Call(op, ok) == [op |-> op, ok |-> ok]

\* What a call leaves, with the repository calls it made, in order.
Outcome(r, cs) == [result |-> r, repoCalls |-> cs]

ResolvedWrites(w) == [k \in 1..Len(w) |-> Call(w[k], TRUE)]

\* slip: a rejected lookup is awaited a second time and the call goes on
post_decisionGame_try_Retry(d, req, pick, fail) ==
  LET r == post_decisionGame_run(d, req, pick) IN
  IF r.status # "ok"
  THEN Outcome(r, <<>>)
  ELSE IF fail = 1
  THEN Outcome(r, <<Call("find", FALSE), Call("find", TRUE)>> \o ResolvedWrites(r.writes))
  ELSE IF fail = 2 /\ r.writes # <<>>
  THEN Outcome(Result("serverError", d, <<>>, r.current),
               <<Call("find", TRUE), Call(r.writes[1], FALSE)>>)
  ELSE Outcome(r, <<Call("find", TRUE)>> \o ResolvedWrites(r.writes))

\* post_decisionGame with its repository call number `fail` rejected (0: none
\* is).  The rejection is thrown at the await inside try and the catch block
\* answers serverError; a rejected write leaves the collection as it was.
post_decisionGame_try(d, req, pick, fail) ==
  LET r == post_decisionGame_run(d, req, pick) IN
  IF r.status # "ok"
  THEN Outcome(r, <<>>)
  ELSE IF fail = 1
  THEN Outcome(Result("serverError", d, <<>>, NoItem), <<Call("find", FALSE)>>)
  ELSE IF fail = 2 /\ r.writes # <<>>
  THEN Outcome(Result("serverError", d, <<>>, r.current),
               <<Call("find", TRUE), Call(r.writes[1], FALSE)>>)
  ELSE Outcome(r, <<Call("find", TRUE)>> \o ResolvedWrites(r.writes))

\* get_decisionGame_leaderboard with its one repository call rejected
\* (fail = 1) or not.
get_decisionGame_leaderboard_try(d, q, skip, fail) ==
  LET r == get_decisionGame_leaderboard_run(d, q, skip) IN
  IF r.status # "ok"
  THEN Outcome(r, <<>>)
  ELSE IF fail = 1
  THEN Outcome(GetResult("serverError", <<>>, <<>>, Undefined), <<Call("find", FALSE)>>)
  ELSE Outcome(r, <<Call("find", TRUE)>>)

\* One call of post_decisionGame against a repository that can reject a call.
post_decisionGame_failing(req, fail) ==
  /\ \E pick \in Picks(db, req) :
       LET o == post_decisionGame_try(db, req, pick, fail) IN
         /\ Len(o.result.db) <= MaxRecords
         /\ db' = o.result.db
         /\ handler' = "post_decisionGame"
         /\ resp' = o.result.status
         /\ writes' = o.result.writes
         /\ cur' = o.result.current
         /\ repoCalls' = o.repoCalls
  /\ reqMode' = Undefined /\ fetched' = <<>> /\ board' = <<>> /\ echo' = Undefined
  /\ UNCHANGED <<histVars, cmpVars, proc>>

\* One call of get_decisionGame_leaderboard against such a repository.
get_decisionGame_leaderboard_failing(q, fail) ==
  /\ \E skip \in 0..MaxSkip(db) :
       LET o == get_decisionGame_leaderboard_try(db, q, skip, fail) IN
         /\ handler' = "get_decisionGame_leaderboard"
         /\ resp' = o.result.status
         /\ reqMode' = q.mode
         /\ fetched' = o.result.fetched
         /\ board' = o.result.results
         /\ echo' = o.result.echo
         /\ repoCalls' = o.repoCalls
  /\ writes' = <<>>
  /\ cur' = NoItem
  /\ UNCHANGED <<db, histVars, cmpVars, proc>>

\* post_decisionGame and get_decisionGame_leaderboard, one call at a time,
\* any one repository call of a call rejected or none.
NextFail ==
  \/ \E req \in BoardRequests, fail \in 0..2 : post_decisionGame_failing(req, fail)
  \/ \E q \in GetRequests, fail \in 0..1 : get_decisionGame_leaderboard_failing(q, fail)

SpecFail == Init /\ [][NextFail]_vars

\* C15: when a repository call (find, insert or update) of a save-score or
\* leaderboard call fails, the response is a server error and the failed call
\* is the last repository call of that call: no retry and no write after it.
C15_FailureEndsCall ==
  \A k \in 1..Len(repoCalls) :
    ~repoCalls[k].ok =>
      /\ resp = "serverError"
      /\ k = Len(repoCalls)
      /\ writes = <<>>

\* An update was rejected after a lookup that resolved, and the call answered
\* serverError.
C15_Witness ==
  /\ handler = "post_decisionGame"
  /\ Len(repoCalls) = 2
  /\ repoCalls[1] = Call("find", TRUE)
  /\ repoCalls[2] = Call("update", FALSE)
  /\ resp = "serverError"

\* ------------------------------------------------------ out-of-range scores
\* Score fields that are numbers outside the documented ranges: more correct
\* answers than questions, a negative count, a negative time.
OutOfRangePool ==
  { <<11, 10, 5000, 500>>,
    <<-1, 10, 5000, 500>>,
    <<8, 10, -5000, 500>> }

RangeRequests ==
  { Request("saveScore", ScoreBody(ALI, SHORT, sc)) : sc \in ScorePool \cup OutOfRangePool }

\* Both save-score endpoints, called with scores in and out of range.
NextRange ==
  \E req \in RangeRequests :
    \/ post_decisionGame_saveScore(req)
    \/ post_decisionGame(req)

SpecRange == Init /\ [][NextRange]_vars

\* C16: every stored record has correct <= questions, with correct, questions,
\* total time and average time non-negative.
C16_ScoreRanges ==
  \A k \in 1..Len(db) :
    /\ db[k].correct.n <= db[k].questions.n
    /\ db[k].correct.n >= 0 /\ db[k].questions.n >= 0
    /\ db[k].totalTime.n >= 0 /\ db[k].avgReaction.n >= 0

\* ------------------------------------------------------- large collections
\* Collections of up to MaxSmall records are drawn next to the ones at the
\* two caps.
MaxSmall == 20

Letters == <<"B", "C", "D", "E", "F", "G", "H", "I", "J", "K", "L">>

\* The k-th player's initials: three letters, different for different k.
InitialsOf(k) ==
  Str(<< Letters[((k \div 121) % 11) + 1], Letters[((k \div 11) % 11) + 1],
         Letters[(k % 11) + 1] >>)

\* The short item post_decisionGame_saveScore inserts for a body with these
\* fields (mistakes = questions - correct).
SavedItem(k, initials, correct, questions, totalTime, avgReaction) ==
  Item(k, initials, SHORT, Num(correct), Num(questions), Num(totalTime),
       Num(avgReaction), Num(questions - correct))

\* A collection of n short items, one per player, of mixed quality; with
\* lead = 1 the oldest item is a perfect run, better than every other one.
Collection(n, lead) ==
  [k \in 1..n |->
     IF k = lead
     THEN SavedItem(k, ALI, 10, 10, 4000, 400)
     ELSE SavedItem(k, InitialsOf(k), (k * 7) % 10, 10, 5000 + ((k * 13) % 50),
                    500 + (k % 3))]

CapSizes == (0..MaxSmall) \cup {TOP - 1, TOP, TOP + 1, QUERY_LIMIT, QUERY_LIMIT + 1}

CapCollections ==
  { Collection(n, 1) : n \in CapSizes } \cup { Collection(n, 0) : n \in 0..MaxSmall }

\* The collection was filled by earlier save-score calls; no call of this run
\* was made yet.
InitCap ==
  /\ db \in CapCollections
  /\ handler = "none" /\ resp = "none" /\ writes = <<>> /\ cur = NoItem
  /\ submitted = {} /\ calls = 0
  /\ cmpA = NoItem /\ cmpB = NoItem /\ cmpOut = NotCompared
  /\ reqMode = Undefined /\ fetched = <<>> /\ board = <<>> /\ echo = Undefined
  /\ proc = [p \in Procs |-> Idle]
  /\ repoCalls = <<>>

CapRequest == [path |-> "leaderboard", mode |-> SHORT]

\* Leaderboard calls for mode short on such a collection.
NextCap ==
  \/ get_decisionGame_leaderboard(CapRequest)
  \/ get_decisionGame(CapRequest)

SpecCap == InitCap /\ [][NextCap]_vars

\* C20: the leaderboard ranks only what the capped query returned: at most
\* QUERY_LIMIT records of the mode, and the results are the TOP best of those.
\* With more stored records of the mode than the cap, a returned entry can be
\* strictly worse than a stored record of the mode that is absent.
C20_RanksFetchedOnly ==
  (handler \in GetHandlers /\ resp = "ok") =>
    /\ Len(fetched) = Min(QUERY_LIMIT, Len(eqMode(db, reqMode)))
    /\ \A j \in 1..Len(fetched) :
         fetched[j].mode = reqMode /\ db[fetched[j]._id] = fetched[j]
    /\ Len(board) = Min(TOP, Len(fetched))
    /\ \A k \in 1..Len(board) :
         /\ \E j \in 1..Len(fetched) :
              /\ fetched[j].initials = board[k].initials
              /\ SameScore(fetched[j], board[k])
         /\ Cardinality({ j \in 1..Len(fetched) :
              isScoreBetter(fetched[j], EntryScore(board[k], reqMode)) }) < k

\* More short records are stored than the query returns, and one of those it
\* left out is strictly better than a returned entry and is not in the
\* results.
C20_Witness ==
  /\ handler \in GetHandlers /\ resp = "ok"
  /\ Len(eqMode(db, reqMode)) > QUERY_LIMIT
  /\ \E k \in 1..Len(db) :
       /\ db[k].mode = reqMode
       /\ \A j \in 1..Len(fetched) : fetched[j]._id # k
       /\ \A e \in 1..Len(board) : board[e].initials # db[k].initials
       /\ \E e \in 1..Len(board) : isScoreBetter(db[k], EntryScore(board[e], reqMode))

\* C21: two concurrent post_decisionGame calls for one (initials, mode) with
\* no record for the pair can both get an empty lookup and both insert, which
\* leaves two records for the pair.  A call whose lookup matched nothing
\* appends its score document whatever the collection holds by then.
C21_BothInsert ==
  [][ \A p \in Procs :
        (Finishes(p) /\ proc[p].current = NoItem) =>
          /\ Len(db') = Len(db) + 1
          /\ db'[Len(db')] = [ScoreDoc(proc[p].req.body) EXCEPT !._id = Len(db')]
    ]_vars

\* Both clients got an empty lookup for the same pair, both inserted, and the
\* collection holds two records for the pair.
C21_Witness ==
  /\ \A p \in Procs :
       /\ proc[p].pc = "idle" /\ proc[p].writes = <<"insert">>
       /\ proc[p].current = NoItem
  /\ SameKey(proc[1].req.body, proc[2].req.body)
  /\ \E j, k \in 1..Len(db) :
       /\ j # k
       /\ SameKey(db[j], db[k])
       /\ SameKey(db[j], proc[1].req.body)

\* The (initials, mode) of a request body is the one of record x.
KeyOf(b, x) == x.initials = b.initials /\ x.mode = b.mode

\* C22: a post_decisionGame call for (initials i, mode m) leaves every record
\* of another (initials, mode) as it was, and a record it updates keeps its
\* initials, mode and _id: only score fields change.
C22_Frame ==
  [][ \A p \in Procs :
        Finishes(p) =>
          \A k \in 1..Len(db) :
            /\ k <= Len(db')
            /\ ~KeyOf(proc[p].req.body, db[k]) => db'[k] = db[k]
            /\ db'[k] = [db[k] EXCEPT !.correct = db'[k].correct,
                                      !.questions = db'[k].questions,
                                      !.totalTime = db'[k].totalTime,
                                      !.avgReaction = db'[k].avgReaction]
    ]_vars

\* A call for one mode has just updated its record while a record of the same
\* player in the other mode is stored next to it.
C22_Witness ==
  /\ handler = "post_decisionGame" /\ writes = <<"update">>
  /\ Len(db) = 2
  /\ db[1].initials = db[2].initials /\ db[1].mode # db[2].mode
  /\ \E k \in 1..2 : db[k]._id = cur._id /\ ~SameScore(db[k], cur)

\* ---------------------------------------------------- all calls interleaved
\* Leaderboard requests of the interleaved runs.
LifeRequests ==
  { [path |-> "leaderboard", mode |-> m] : m \in {SHORT, MEDIUM} }

\* post_decisionGame calls of two clients interleaved at their awaits, with
\* leaderboard calls in between (a leaderboard call awaits the repository
\* once, so it meets the collection in one step).
NextLife ==
  \/ \E p \in Procs :
       \/ \E req \in ConcRequests : post_decisionGame_find(p, req)
       \/ post_decisionGame_write(p)
  \/ \E q \in LifeRequests :
       \/ get_decisionGame_leaderboard(q)
       \/ get_decisionGame(q)

SpecLife == Init /\ [][NextLife]_vars

\* C23: no save-score or leaderboard call deletes a record: an (initials,
\* mode) pair that has a record in the collection has one after every step,
\* so in every later state.
C23_NeverDeleted ==
  [][ \A k \in 1..Len(db) :
        \E j \in 1..Len(db') : SameKey(db'[j], db[k])
    ]_vars

\* A stored record was updated by one call and read by a leaderboard call
\* after it, and the pair of the first record ever stored still has a record.
C23_Witness ==
  /\ handler \in GetHandlers /\ resp = "ok"
  /\ Len(board) > 0
  /\ \E p \in Procs : proc[p].writes = <<"update">>
  /\ \E s \in submitted : SameKey(s, db[1]) /\ ~SameScore(s, db[1])

====
